---------------------------- MODULE Spec2Model ----------------------------
(***************************************************************************)
(* Model of the bn_coin HTTP service: POST /api/filter-coins and           *)
(* GET /api/networks, two Express handlers over one upstream fetch.        *)
(*                                                                         *)
(* JavaScript strings are sequences of one-character strings, so that      *)
(* .length, localeCompare and the array-index test of property keys are    *)
(* computed, not tabulated.  A plain JavaScript object is the sequence of   *)
(* its own enumerable properties in the order Object.entries and           *)
(* JSON.stringify visit them.                                              *)
(***************************************************************************)
EXTENDS Integers, Sequences, FiniteSets, TLC

(***************************************************************************)
(* Bounds of the model.                                                    *)
(***************************************************************************)
NumReqs == 2
MaxCoins == 2
MaxNets == 2

Reqs == 1..NumReqs

(***************************************************************************)
(* Strings.                                                                *)
(***************************************************************************)
s_ETH == <<"E", "T", "H">>
s_BSC == <<"B", "S", "C">>
s_BTC == <<"B", "T", "C">>
s_10 == <<"1", "0">>
s_2 == <<"2">>
s_proto == <<"_", "_", "p", "r", "o", "t", "o", "_", "_">>
s_empty == <<>>
s_A == <<"A">>
s_B == <<"B">>
s_AB == <<"A", "B">>

Digits == <<"0", "1", "2", "3", "4", "5", "6", "7", "8", "9">>
UpperLetters == <<"A", "B", "C", "E", "H", "O", "P", "R", "S", "T">>
LowerLetters == <<"a", "b", "c", "e", "h", "o", "p", "r", "s", "t">>

IndexIn(seq, c) == CHOOSE i \in 1..Len(seq) : seq[i] = c
InSeq(seq, c) == \E i \in 1..Len(seq) : seq[i] = c

IsDigit(c) == InSeq(Digits, c)
DigitVal(c) == IndexIn(Digits, c) - 1

RECURSIVE ToNumber(_)
ToNumber(s) ==
    IF s = <<>> THEN 0
    ELSE 10 * ToNumber(SubSeq(s, 1, Len(s) - 1)) + DigitVal(s[Len(s)])

\* A property key is an array index when it is the canonical decimal form of
\* an integer in 0 .. 2^32 - 2.  Keys of up to nine digits are all below that
\* limit; longer keys do not occur in the model.
IsArrayIndex(s) ==
    /\ Len(s) >= 1
    /\ Len(s) <= 9
    /\ \A i \in 1..Len(s) : IsDigit(s[i])
    /\ (Len(s) > 1 => s[1] # "0")

(***************************************************************************)
(* String.prototype.localeCompare with the default collation: punctuation  *)
(* before digits before letters at the primary level, a lower-case letter   *)
(* before its upper-case form at the tertiary level, a proper prefix        *)
(* before the longer string.                                               *)
(***************************************************************************)
Primary(c) ==
    IF c = "_" THEN 0
    ELSE IF IsDigit(c) THEN 1 + DigitVal(c)
    ELSE IF InSeq(UpperLetters, c) THEN 11 + IndexIn(UpperLetters, c)
    ELSE 11 + IndexIn(LowerLetters, c)

Tertiary(c) == IF InSeq(UpperLetters, c) THEN 1 ELSE 0

RECURSIVE CompareLevel(_, _, _)
CompareLevel(a, b, level) ==
    IF a = <<>> /\ b = <<>> THEN 0
    ELSE IF a = <<>> THEN -1
    ELSE IF b = <<>> THEN 1
    ELSE LET ka == IF level = 1 THEN Primary(Head(a)) ELSE Tertiary(Head(a))
             kb == IF level = 1 THEN Primary(Head(b)) ELSE Tertiary(Head(b))
         IN  IF ka < kb THEN -1
             ELSE IF ka > kb THEN 1
             ELSE CompareLevel(Tail(a), Tail(b), level)

localeCompare(a, b) ==
    IF CompareLevel(a, b, 1) # 0 THEN CompareLevel(a, b, 1)
    ELSE CompareLevel(a, b, 2)

(***************************************************************************)
(* Plain objects: a sequence of <<key, value>> pairs in own-property        *)
(* order: array-index keys in ascending numeric order first, then the      *)
(* other string keys in the order they were created.                       *)
(***************************************************************************)
EmptyObject == <<>>

Keys(obj) == [i \in 1..Len(obj) |-> obj[i][1]]
KeySet(obj) == {obj[i][1] : i \in 1..Len(obj)}
HasOwn(obj, k) == \E i \in 1..Len(obj) : obj[i][1] = k
OwnValue(obj, k) == obj[CHOOSE i \in 1..Len(obj) : obj[i][1] = k][2]

\* The place a new key takes among the own properties.
InsertAt(obj, k) ==
    IF IsArrayIndex(k)
    THEN 1 + Cardinality({i \in 1..Len(obj) :
                 IsArrayIndex(obj[i][1]) /\ ToNumber(obj[i][1]) < ToNumber(k)})
    ELSE Len(obj) + 1

\* CreateDataProperty: an existing key keeps its place and takes the value.
DefineOwn(obj, k, v) ==
    IF HasOwn(obj, k)
    THEN [i \in 1..Len(obj) |-> IF obj[i][1] = k THEN <<k, v>> ELSE obj[i]]
    ELSE LET p == InsertAt(obj, k)
         IN  SubSeq(obj, 1, p - 1) \o << <<k, v>> >> \o SubSeq(obj, p, Len(obj))

\* obj[k] = v on an object created by {}: the key "__proto__" is the
\* accessor inherited from Object.prototype, whose setter changes the
\* prototype (or does nothing for a primitive) and creates no own property.
AssignProperty(obj, k, v) ==
    IF k = s_proto /\ ~HasOwn(obj, k) THEN obj ELSE DefineOwn(obj, k, v)

\* The outcome of reading obj[k] on an object created by {}, as far as the
\* handlers look at it: its truthiness and its .length.
JSUndefined == [t |-> "undefined", s |-> <<>>]
JSString(s) == [t |-> "string", s |-> s]
JSObjectPrototype == [t |-> "object", s |-> <<>>]

GetProperty(obj, k) ==
    IF HasOwn(obj, k) THEN JSString(OwnValue(obj, k))
    ELSE IF k = s_proto THEN JSObjectPrototype
    ELSE JSUndefined

Truthy(v) ==
    \/ v.t = "object"
    \/ v.t = "string" /\ v.s # <<>>

\* v.length < n: the length of a string is its number of characters; an
\* object without a length property gives undefined, and undefined < n is
\* false.
LengthLessThan(v, n) == v.t = "string" /\ Len(v.s) < n

(***************************************************************************)
(* Upstream data (interfaces Network, Coin, ApiResponse).  Only the fields  *)
(* the handlers read are kept.                                             *)
(***************************************************************************)
Network(code, name, w, d) ==
    [network |-> code, name |-> name, withdrawEnable |-> w, depositEnable |-> d]

Coin(symbol, name, nets) == [coin |-> symbol, name |-> name, networkList |-> nets]

\* A response body whose data is an array of coins, and one whose data is
\* not an array (an error payload, a truncated body).
ApiResponse(coins) == [isArray |-> TRUE, data |-> coins]
MalformedBody == [isArray |-> FALSE, data |-> <<>>]

(***************************************************************************)
(* JavaScript values of the request body's networks property.              *)
(***************************************************************************)
JSNumber(digits) == [t |-> "number", s |-> digits]
JSArray(elems) == [t |-> "array", elems |-> elems]
JSNotArray(type) == [t |-> type, elems |-> <<>>]

\* Faulty variants of the validation: one that lets an array-like string
\* through, one that also rejects an array with a non-string element.
IsArray_ArrayLike(networks) == networks.t \in {"array", "string"}
IsArray_OfStrings(networks) ==
    /\ networks.t = "array"
    /\ \A i \in 1..Len(networks.elems) : networks.elems[i].t = "string"

\* Array.isArray(networks)
IsArray(networks) == networks.t = "array"

\* new Set(networks), and whitelistedNetworks.has(code): SameValueZero, so
\* the number 10 is not the string "10".
NewSet(networks) == {networks.elems[i] : i \in 1..Len(networks.elems)}
SetHas(set, code) == JSString(code) \in set

(***************************************************************************)
(* POST /api/filter-coins: filter and transform.                           *)
(***************************************************************************)
\* A faulty variant of the filter: every instead of some.
SomeNotWhitelisted_Every(coin, whitelistedNetworks) ==
    \A i \in 1..Len(coin.networkList) :
        ~SetHas(whitelistedNetworks, coin.networkList[i].network)

\* coin.networkList.some(network => !whitelistedNetworks.has(network.network))
SomeNotWhitelisted(coin, whitelistedNetworks) ==
    \E i \in 1..Len(coin.networkList) :
        ~SetHas(whitelistedNetworks, coin.networkList[i].network)

\* Array.prototype.filter, left to right.
RECURSIVE FilterCoins(_, _)
FilterCoins(data, whitelistedNetworks) ==
    IF data = <<>> THEN <<>>
    ELSE IF SomeNotWhitelisted(Head(data), whitelistedNetworks)
         THEN <<Head(data)>> \o FilterCoins(Tail(data), whitelistedNetworks)
         ELSE FilterCoins(Tail(data), whitelistedNetworks)

SimplifiedNetwork(network) ==
    [name |-> network.name,
     withdrawEnable |-> network.withdrawEnable,
     depositEnable |-> network.depositEnable]

\* coin.networkList.forEach(network => { networkMap[network.network] = ... })
RECURSIVE NetworkMap(_, _)
NetworkMap(networkMap, networkList) ==
    IF networkList = <<>> THEN networkMap
    ELSE NetworkMap(
             AssignProperty(networkMap, Head(networkList).network,
                            SimplifiedNetwork(Head(networkList))),
             Tail(networkList))

SimplifiedCoin(coin) ==
    [coin |-> coin.coin,
     name |-> coin.name,
     networks |-> NetworkMap(EmptyObject, coin.networkList)]

FilteredCoins(data, networks) ==
    LET kept == FilterCoins(data, NewSet(networks))
    IN  [i \in 1..Len(kept) |-> SimplifiedCoin(kept[i])]

(***************************************************************************)
(* GET /api/networks: index build, sort, rebuild.                          *)
(***************************************************************************)
\* if (!networksMap[code] || networksMap[code].length < name.length)
\*     networksMap[code] = name
IndexNetwork(networksMap, network) ==
    LET seen == GetProperty(networksMap, network.network)
    IN  IF ~Truthy(seen) \/ LengthLessThan(seen, Len(network.name))
        THEN AssignProperty(networksMap, network.network, network.name)
        ELSE networksMap

RECURSIVE IndexNetworkList(_, _)
IndexNetworkList(networksMap, networkList) ==
    IF networkList = <<>> THEN networksMap
    ELSE IndexNetworkList(IndexNetwork(networksMap, Head(networkList)),
                          Tail(networkList))

RECURSIVE NetworksMap(_, _)
NetworksMap(networksMap, data) ==
    IF data = <<>> THEN networksMap
    ELSE NetworksMap(IndexNetworkList(networksMap, Head(data).networkList),
                     Tail(data))

\* Array.prototype.sort with ([a], [b]) => a.localeCompare(b): a stable sort.
RECURSIVE InsertSorted(_, _)
InsertSorted(sorted, entry) ==
    IF sorted = <<>> THEN <<entry>>
    ELSE IF localeCompare(entry[1], Head(sorted)[1]) < 0
         THEN <<entry>> \o sorted
         ELSE <<Head(sorted)>> \o InsertSorted(Tail(sorted), entry)

RECURSIVE SortEntries(_)
SortEntries(entries) ==
    IF entries = <<>> THEN <<>>
    ELSE InsertSorted(SortEntries(SubSeq(entries, 1, Len(entries) - 1)),
                      entries[Len(entries)])

\* .reduce((obj, [key, value]) => ({...obj, [key]: value}), {})
RECURSIVE ReduceToObject(_, _)
ReduceToObject(obj, entries) ==
    IF entries = <<>> THEN obj
    ELSE ReduceToObject(DefineOwn(obj, Head(entries)[1], Head(entries)[2]),
                        Tail(entries))

\* Object.entries(networksMap) is networksMap in own-property order.
SortedNetworks(networksMap) == ReduceToObject(EmptyObject, SortEntries(networksMap))

(***************************************************************************)
(* Responses.                                                              *)
(***************************************************************************)
BadRequest ==
    [status |-> 400,
     body |-> [success |-> FALSE, message |-> "Networks must be an array"]]

\* A faulty variant of the 500 response: it echoes the error.
InternalServerError_Leak ==
    [status |-> 500,
     body |-> [success |-> FALSE, message |-> "Internal server error",
               error |-> "upstream"]]

InternalServerError ==
    [status |-> 500,
     body |-> [success |-> FALSE, message |-> "Internal server error"]]

\* res.json of src/index.ts
FilterCoinsOk(data, filteredCoins) ==
    [status |-> 200,
     body |-> [success |-> TRUE, total |-> Len(filteredCoins),
               totalCoins |-> Len(data), data |-> filteredCoins]]

\* res.json of the second copy of the server, which has no totalCoins
FilterCoinsOkPart000(data, filteredCoins) ==
    [status |-> 200,
     body |-> [success |-> TRUE, total |-> Len(filteredCoins),
               data |-> filteredCoins]]

NetworksOk(networksMap, sortedNetworks) ==
    [status |-> 200,
     body |-> [success |-> TRUE, total |-> Len(Keys(networksMap)),
               data |-> sortedNetworks]]

(***************************************************************************)
(* State.                                                                  *)
(***************************************************************************)
VARIABLES
    program,      \* which copy of the server runs: "index" or "part_000"
    pc,           \* per request: "idle", "awaiting", "settled", "done"
    route,        \* per request: "none", "filter-coins", "networks"
    reqNetworks,  \* per request: req.body.networks
    fetchCalls,   \* per request: calls of axios.get made for it
    fetchResult,  \* per request: how its own axios.get settled
    res           \* per request: the responses sent, in order

vars == <<program, pc, route, reqNetworks, fetchCalls, fetchResult, res>>

Pending == [st |-> "pending", body |-> MalformedBody]
Resolved(body) == [st |-> "resolved", body |-> body]
Rejected == [st |-> "rejected", body |-> MalformedBody]

Init ==
    /\ program \in {"index", "part_000"}
    /\ pc = [r \in Reqs |-> "idle"]
    /\ route = [r \in Reqs |-> "none"]
    /\ reqNetworks = [r \in Reqs |-> JSNotArray("undefined")]
    /\ fetchCalls = [r \in Reqs |-> 0]
    /\ fetchResult = [r \in Reqs |-> Pending]
    /\ res = [r \in Reqs |-> <<>>]

\* A faulty variant of the fetch: the first settled result is kept and served
\* to every request.
binanceResponse_Cached(r) ==
    fetchResult[CHOOSE q \in Reqs :
        /\ fetchResult[q].st # "pending"
        /\ \A p \in Reqs : fetchResult[p].st # "pending" => q <= p]

\* const binanceResponse = await fetchBinanceData(): the value the handler
\* of request r resumes with.
binanceResponse(r) == fetchResult[r]

\* The body of the handler of POST /api/filter-coins after the await.
FilterCoinsResponse(prog, networks, fetched) ==
    IF fetched.st # "resolved" \/ ~fetched.body.isArray
    THEN InternalServerError
    ELSE LET data == fetched.body.data
             filteredCoins == FilteredCoins(data, networks)
         IN  IF prog = "index" THEN FilterCoinsOk(data, filteredCoins)
             ELSE FilterCoinsOkPart000(data, filteredCoins)

\* The body of the handler of GET /api/networks after the await.
NetworksResponse(fetched) ==
    IF fetched.st # "resolved" \/ ~fetched.body.isArray
    THEN InternalServerError
    ELSE LET networksMap == NetworksMap(EmptyObject, fetched.body.data)
         IN  NetworksOk(networksMap, SortedNetworks(networksMap))

\* A faulty variant of the handler: the 400 answer without its return, so
\* that the handler goes on to the fetch.
PostFilterCoins_NoReturn(r, networks) ==
    /\ pc[r] = "idle"
    /\ route' = [route EXCEPT ![r] = "filter-coins"]
    /\ reqNetworks' = [reqNetworks EXCEPT ![r] = networks]
    /\ res' = IF ~IsArray(networks)
              THEN [res EXCEPT ![r] = Append(@, BadRequest)]
              ELSE res
    /\ fetchCalls' = [fetchCalls EXCEPT ![r] = @ + 1]
    /\ pc' = [pc EXCEPT ![r] = "awaiting"]
    /\ UNCHANGED <<program, fetchResult>>

\* A POST /api/filter-coins request arrives; the handler runs to its first
\* await: it answers 400, or calls fetchBinanceData.
PostFilterCoins(r, networks) ==
    /\ pc[r] = "idle"
    /\ route' = [route EXCEPT ![r] = "filter-coins"]
    /\ reqNetworks' = [reqNetworks EXCEPT ![r] = networks]
    /\ IF ~IsArray(networks)
       THEN /\ res' = [res EXCEPT ![r] = Append(@, BadRequest)]
            /\ pc' = [pc EXCEPT ![r] = "done"]
            /\ UNCHANGED fetchCalls
       ELSE /\ fetchCalls' = [fetchCalls EXCEPT ![r] = @ + 1]
            /\ pc' = [pc EXCEPT ![r] = "awaiting"]
            /\ UNCHANGED res
    /\ UNCHANGED <<program, fetchResult>>

\* A GET /api/networks request arrives; the handler calls fetchBinanceData.
GetNetworks(r) ==
    /\ program = "index"
    /\ pc[r] = "idle"
    /\ route' = [route EXCEPT ![r] = "networks"]
    /\ fetchCalls' = [fetchCalls EXCEPT ![r] = @ + 1]
    /\ pc' = [pc EXCEPT ![r] = "awaiting"]
    /\ UNCHANGED <<program, reqNetworks, fetchResult, res>>

\* axios.get resolves with one of the bodies the upstream can send:
\* fetchBinanceData returns response.data.
FetchResolves(r, bodies) ==
    /\ pc[r] = "awaiting"
    /\ \E body \in bodies :
           fetchResult' = [fetchResult EXCEPT ![r] = Resolved(body)]
    /\ pc' = [pc EXCEPT ![r] = "settled"]
    /\ UNCHANGED <<program, route, reqNetworks, fetchCalls, res>>

\* axios.get rejects (transport error, non-2xx status): fetchBinanceData
\* logs the error and throws it again.
FetchRejects(r) ==
    /\ pc[r] = "awaiting"
    /\ fetchResult' = [fetchResult EXCEPT ![r] = Rejected]
    /\ pc' = [pc EXCEPT ![r] = "settled"]
    /\ UNCHANGED <<program, route, reqNetworks, fetchCalls, res>>

\* The handler of POST /api/filter-coins resumes after the await.
PostFilterCoinsResume(r) ==
    /\ pc[r] = "settled"
    /\ route[r] = "filter-coins"
    /\ res' = [res EXCEPT ![r] =
                  Append(@, FilterCoinsResponse(program, reqNetworks[r],
                                                binanceResponse(r)))]
    /\ pc' = [pc EXCEPT ![r] = "done"]
    /\ UNCHANGED <<program, route, reqNetworks, fetchCalls, fetchResult>>

\* The handler of GET /api/networks resumes after the await.
GetNetworksResume(r) ==
    /\ pc[r] = "settled"
    /\ route[r] = "networks"
    /\ res' = [res EXCEPT ![r] = Append(@, NetworksResponse(binanceResponse(r)))]
    /\ pc' = [pc EXCEPT ![r] = "done"]
    /\ UNCHANGED <<program, route, reqNetworks, fetchCalls, fetchResult>>

(***************************************************************************)
(* Inputs.                                                                 *)
(***************************************************************************)
Symbol(i) == <<"C", Digits[i + 1]>>
CoinName(i) == <<"N", Digits[i + 1]>>

NetLists(pool) == UNION {[1..k -> pool] : k \in 0..MaxNets}

\* The datasets of at most MaxCoins coins, each with at most MaxNets networks
\* of the pool; coin symbols are unique in a dataset.
Datasets(pool) ==
    UNION {{[i \in 1..k |-> Coin(Symbol(i), CoinName(i), f[i])] :
               f \in [1..k -> NetLists(pool)]} : k \in 0..MaxCoins}

Bodies(pool) == {ApiResponse(d) : d \in Datasets(pool)} \cup {MalformedBody}

\* The concurrent server: a few request bodies and a few upstream bodies.
NetworksValues ==
    {JSNotArray("undefined"), JSNotArray("string"),
     JSArray(<<>>), JSArray(<<JSString(s_ETH)>>), JSArray(<<JSNumber(s_10)>>)}

UpstreamBodies ==
    {ApiResponse(<<>>),
     ApiResponse(<<Coin(s_BTC, s_A, <<Network(s_BSC, s_AB, TRUE, FALSE),
                                      Network(s_ETH, s_A, TRUE, TRUE)>>),
                   Coin(s_ETH, s_B, <<Network(s_ETH, s_AB, FALSE, TRUE)>>)>>),
     ApiResponse(<<Coin(s_BSC, s_AB, <<Network(s_10, s_B, FALSE, FALSE)>>)>>),
     MalformedBody}

\* The filter on its own: every dataset over two codes.
FilterPool == {Network(s_ETH, s_A, TRUE, FALSE), Network(s_BSC, s_B, FALSE, TRUE)}

FilterWhitelists ==
    {JSNotArray("object"), JSArray(<<>>), JSArray(<<JSString(s_ETH)>>),
     JSArray(<<JSString(s_BSC), JSString(s_ETH)>>)}

\* The property keys on their own: two codes that are array indices, and
\* the code "__proto__" beside an ordinary one.
IndexKeysPool == {Network(s_10, s_A, TRUE, FALSE), Network(s_2, s_B, FALSE, TRUE)}
ProtoKeyPool == {Network(s_proto, s_AB, TRUE, TRUE), Network(s_BSC, s_A, FALSE, TRUE)}

KeysWhitelists == {JSNotArray("null"), JSArray(<<>>), JSArray(<<JSString(s_2)>>)}

\* The names on their own: one code listed with an empty name and a longer
\* one, and with two names of the same length.
EmptyNamePool == {Network(s_BSC, s_empty, TRUE, TRUE), Network(s_BSC, s_A, TRUE, FALSE)}
SameLengthPool == {Network(s_BSC, s_A, TRUE, FALSE), Network(s_BSC, s_B, FALSE, TRUE)}

NamesWhitelists == {JSNotArray("number"), JSArray(<<>>)}

FilterBodies == Bodies(FilterPool)
KeysBodies == Bodies(IndexKeysPool) \cup Bodies(ProtoKeyPool)
NamesBodies == Bodies(EmptyNamePool) \cup Bodies(SameLengthPool)

(***************************************************************************)
(* Specifications.                                                         *)
(***************************************************************************)
Step(r, values, bodies) ==
    \/ \E networks \in values : PostFilterCoins(r, networks)
    \/ GetNetworks(r)
    \/ FetchResolves(r, bodies)
    \/ FetchRejects(r)
    \/ PostFilterCoinsResume(r)
    \/ GetNetworksResume(r)

\* Concurrent requests.
Next == \E r \in Reqs : Step(r, NetworksValues, UpstreamBodies)
Spec == Init /\ [][Next]_vars

\* The event loop runs every continuation that is ready, and the upstream
\* fetch of a request is assumed to settle, one way or the other: a request
\* that awaits its fetch, or whose fetch has settled, moves on.  The steps of
\* Next that change pc this way are FetchResolves, FetchRejects and the two
\* Resume actions.
MovesOn(r) ==
    /\ pc[r] \in {"awaiting", "settled"}
    /\ pc' = [pc EXCEPT ![r] = IF pc[r] = "awaiting" THEN "settled" ELSE "done"]

FairSpec == Spec /\ \A r \in Reqs : WF_pc(MovesOn(r))

\* One request at a time over all the datasets of a pool.
NextFilter == Step(1, FilterWhitelists, FilterBodies)
SpecFilter == Init /\ [][NextFilter]_vars

NextKeys == Step(1, KeysWhitelists, KeysBodies)
SpecKeys == Init /\ [][NextKeys]_vars

NextNames == Step(1, NamesWhitelists, NamesBodies)
SpecNames == Init /\ [][NextNames]_vars

(***************************************************************************)
(* Properties.                                                             *)
(***************************************************************************)
Ok200(r, rt) == route[r] = rt /\ Len(res[r]) = 1 /\ res[r][1].status = 200

FetchedData(r) == fetchResult[r].body.data
ResponseData(r) == res[r][1].body.data

AllStrings(networks) ==
    \A i \in 1..Len(networks.elems) : networks.elems[i].t = "string"
WhitelistCodes(networks) ==
    {networks.elems[i].s : i \in {j \in 1..Len(networks.elems) :
                                     networks.elems[j].t = "string"}}

CodesOf(coin) == {coin.networkList[j].network : j \in 1..Len(coin.networkList)}

\* The positions in D of the coins with a network whose code is not in W,
\* and the k-th of them.
RetainedPositions(D, W) == {i \in 1..Len(D) : CodesOf(D[i]) \ W # {}}
NthOf(S, k) == CHOOSE i \in S : Cardinality({j \in S : j < i}) = k - 1

\* C1: the data of a 200 response of POST /api/filter-coins, for a whitelist
\* of network codes, is the coins of the dataset that have a network whose
\* code is not whitelisted: all of them, once each, no other coin, in the
\* dataset's order.
C1_FilterExact ==
    \A r \in Reqs :
        (Ok200(r, "filter-coins") /\ AllStrings(reqNetworks[r])) =>
            LET D == FetchedData(r)
                out == ResponseData(r)
                kept == RetainedPositions(D, WhitelistCodes(reqNetworks[r]))
            IN  /\ Len(out) = Cardinality(kept)
                /\ \A k \in 1..Len(out) :
                       /\ out[k].coin = D[NthOf(kept, k)].coin
                       /\ out[k].name = D[NthOf(kept, k)].name

\* A 200 response that dropped the first coin and kept the second, and one
\* that kept two coins.
C1_Witness ==
    \E r \in Reqs :
        /\ Ok200(r, "filter-coins")
        /\ reqNetworks[r].elems # <<>>
        /\ AllStrings(reqNetworks[r])
        /\ Len(FetchedData(r)) = 2
        /\ Len(FetchedData(r)[1].networkList) > 0
        /\ Len(ResponseData(r)) = 1
        /\ ResponseData(r)[1].coin = FetchedData(r)[2].coin

\* The last network of a coin with a given code.
LastWithCode(coin, code) ==
    coin.networkList[CHOOSE j \in 1..Len(coin.networkList) :
        /\ coin.networkList[j].network = code
        /\ \A l \in (j + 1)..Len(coin.networkList) :
               coin.networkList[l].network # code]

NetworksOfRetained(r) ==
    LET D == FetchedData(r)
        out == ResponseData(r)
        kept == RetainedPositions(D, WhitelistCodes(reqNetworks[r]))
    IN  \A k \in 1..Len(out) :
            LET coin == D[NthOf(kept, k)]
            IN  /\ KeySet(out[k].networks) = CodesOf(coin)
                /\ \A code \in CodesOf(coin) :
                       LET last == LastWithCode(coin, code)
                           kv == OwnValue(out[k].networks, code)
                       IN  /\ kv.name = last.name
                           /\ kv.withdrawEnable = last.withdrawEnable
                           /\ kv.depositEnable = last.depositEnable

\* C2: the networks mapping of every retained coin has as keys exactly the
\* codes of the coin's full network list, each mapped to the name,
\* withdrawEnable and depositEnable of the last network of the coin with
\* that code.
C2_NetworkMapOfAllCodes ==
    \A r \in Reqs :
        (Ok200(r, "filter-coins") /\ AllStrings(reqNetworks[r])) =>
            NetworksOfRetained(r)

\* The same for the datasets in which no network code is "__proto__".
NetworkMapOfOrdinaryCodes ==
    \A r \in Reqs :
        (/\ Ok200(r, "filter-coins")
         /\ AllStrings(reqNetworks[r])
         /\ \A i \in 1..Len(FetchedData(r)) :
                s_proto \notin CodesOf(FetchedData(r)[i])) =>
            NetworksOfRetained(r)

\* The networks of a dataset in upstream order: <<i, j>> is network j of
\* coin i.
Positions(D) ==
    UNION {{<<i, j>> : j \in 1..Len(D[i].networkList)} : i \in 1..Len(D)}
NetAt(D, p) == D[p[1]].networkList[p[2]]
Before(p, q) == p[1] < q[1] \/ (p[1] = q[1] /\ p[2] < q[2])
AllCodes(D) == {NetAt(D, p).network : p \in Positions(D)}

\* The first, in upstream order, of the longest names seen for a code.
FirstLongestName(D, code) ==
    LET P == {p \in Positions(D) : NetAt(D, p).network = code}
        longest == {p \in P : \A q \in P :
                        Len(NetAt(D, q).name) <= Len(NetAt(D, p).name)}
        first == CHOOSE p \in longest : \A q \in longest \ {p} : Before(p, q)
    IN  NetAt(D, first).name

IndexOfDataset(r) ==
    LET D == FetchedData(r)
        data == ResponseData(r)
    IN  /\ KeySet(data) = AllCodes(D)
        /\ Len(data) = Cardinality(AllCodes(D))
        /\ \A code \in AllCodes(D) :
               OwnValue(data, code) = FirstLongestName(D, code)

\* C3: the data of a 200 response of GET /api/networks has as keys exactly
\* the distinct network codes of the dataset, each mapped to the first, in
\* upstream order, of the longest names seen for the code.
C3_IndexLongestName == \A r \in Reqs : Ok200(r, "networks") => IndexOfDataset(r)

\* The same for the datasets in which no network code is "__proto__".
IndexOfOrdinaryCodes ==
    \A r \in Reqs :
        (Ok200(r, "networks") /\ s_proto \notin AllCodes(FetchedData(r))) =>
            IndexOfDataset(r)

\* C7: the keys of the data of a 200 response of GET /api/networks appear in
\* ascending order of localeCompare, and total is the number of distinct
\* codes in data.
KeysAscending(r) ==
    LET keys == Keys(ResponseData(r))
    IN  /\ \A i \in 1..Len(keys) : \A j \in (i + 1)..Len(keys) :
               localeCompare(keys[i], keys[j]) < 0
        /\ res[r][1].body.total = Cardinality(KeySet(ResponseData(r)))

C7_KeysSorted == \A r \in Reqs : Ok200(r, "networks") => KeysAscending(r)

\* The same for the datasets with at most one code that is an array index.
SortedOrdinaryKeys ==
    \A r \in Reqs :
        (/\ Ok200(r, "networks")
         /\ Cardinality({c \in AllCodes(FetchedData(r)) : IsArrayIndex(c)}) <= 1) =>
            KeysAscending(r)

\* C6: a 200 response of POST /api/filter-coins has the fields success,
\* total, totalCoins and data; total is the number of coins in data,
\* totalCoins the number of coins of the upstream dataset, total <= totalCoins.
C6_Totals ==
    \A r \in Reqs :
        Ok200(r, "filter-coins") =>
            LET body == res[r][1].body
            IN  /\ DOMAIN body = {"success", "total", "totalCoins", "data"}
                /\ body.success = TRUE
                /\ body.total = Len(body.data)
                /\ body.totalCoins = Len(FetchedData(r))
                /\ body.total <= body.totalCoins

\* The same for the server of src/index.ts alone.
TotalsOfIndex == program = "index" => C6_Totals

Status400 ==
    [status |-> 400,
     body |-> [success |-> FALSE, message |-> "Networks must be an array"]]
Status500 ==
    [status |-> 500,
     body |-> [success |-> FALSE, message |-> "Internal server error"]]

\* C4: a POST /api/filter-coins request whose networks value is not an array
\* is answered 400 with {success: false, message: "Networks must be an
\* array"}, and no upstream fetch is issued for it.
C4_NonArrayRejected ==
    \A r \in Reqs :
        (route[r] = "filter-coins" /\ reqNetworks[r].t # "array") =>
            /\ res[r] = <<Status400>>
            /\ fetchCalls[r] = 0
            /\ fetchResult[r] = Pending

\* A request with a string for networks was answered while another request
\* had its fetch under way.
C4_Witness ==
    \E r, q \in Reqs :
        /\ route[r] = "filter-coins"
        /\ reqNetworks[r].t = "string"
        /\ pc[r] = "done"
        /\ pc[q] = "awaiting"

FetchFailed(r) ==
    \/ fetchResult[r].st = "rejected"
    \/ fetchResult[r].st = "resolved" /\ ~fetchResult[r].body.isArray

\* C5: when the upstream fetch of a request fails, or the fetched body cannot
\* be processed, either endpoint answers 500 with exactly {success: false,
\* message: "Internal server error"}: no data, no detail of the error.
C5_GenericFailure ==
    \A r \in Reqs :
        (pc[r] = "done" /\ FetchFailed(r)) =>
            /\ res[r] = <<Status500>>
            /\ DOMAIN res[r][1].body = {"success", "message"}

\* Both endpoints have answered a failure: one a rejected fetch, the other a
\* body that is not a list of coins.
C5_Witness ==
    \E r, q \in Reqs :
        /\ route[r] = "filter-coins" /\ pc[r] = "done"
        /\ fetchResult[r].st = "rejected"
        /\ route[q] = "networks" /\ pc[q] = "done"
        /\ fetchResult[q].st = "resolved" /\ ~fetchResult[q].body.isArray

HasStatus(r, status) == \E i \in 1..Len(res[r]) : res[r][i].status = status

\* C8 as stated: every networks value that is not an array of strings is
\* answered 400 before any fetch and never reaches the fetch or a 200.
C8_NonStringArraysRejected ==
    \A r \in Reqs :
        (/\ route[r] = "filter-coins"
         /\ ~(reqNetworks[r].t = "array" /\ AllStrings(reqNetworks[r]))) =>
            /\ fetchCalls[r] = 0
            /\ ~HasStatus(r, 200)
            /\ res[r] = <<Status400>>

\* C8 amended: the values answered 400 before any fetch are exactly those
\* that are not arrays; an array, whatever its elements, is never answered
\* 400 and has its fetch issued.
C8_OnlyNonArraysRejected ==
    \A r \in Reqs :
        route[r] = "filter-coins" =>
            /\ reqNetworks[r].t # "array" =>
                   (fetchCalls[r] = 0 /\ HasStatus(r, 400) /\ ~HasStatus(r, 200))
            /\ reqNetworks[r].t = "array" =>
                   (fetchCalls[r] = 1 /\ ~HasStatus(r, 400))

\* An array with a number in it was answered 200, with a coin in the data.
C8_Witness ==
    \E r \in Reqs :
        /\ Ok200(r, "filter-coins")
        /\ ~AllStrings(reqNetworks[r])
        /\ Len(ResponseData(r)) > 0

ValidRequest(r) ==
    \/ route[r] = "networks"
    \/ route[r] = "filter-coins" /\ reqNetworks[r].t = "array"

OwnResponse(r) ==
    IF route[r] = "networks" THEN NetworksResponse(fetchResult[r])
    ELSE FilterCoinsResponse(program, reqNetworks[r], fetchResult[r])

\* C9: under any interleaving, a request that passes validation has exactly
\* one upstream fetch issued for it, and its response is the one computed
\* from the result of its own fetch and its own whitelist.
C9_OwnFetchOnly ==
    \A r \in Reqs :
        /\ fetchCalls[r] <= 1
        /\ (pc[r] # "idle" /\ ValidRequest(r)) => fetchCalls[r] = 1
        /\ (pc[r] = "done" /\ ValidRequest(r)) => res[r] = <<OwnResponse(r)>>

\* Two requests on the same route were in flight together, their fetches
\* brought different bodies, and each was answered 200 with its own data.
C9_Witness ==
    \E r, q \in Reqs :
        /\ r # q
        /\ route[r] = route[q]
        /\ Len(res[r]) = 1 /\ res[r][1].status = 200
        /\ Len(res[q]) = 1 /\ res[q][1].status = 200
        /\ reqNetworks[r] = reqNetworks[q]
        /\ fetchResult[r] # fetchResult[q]
        /\ res[r] # res[q]

OneResponseAtMost(r) ==
    /\ Len(res[r]) <= 1
    /\ pc[r] = "done" => Len(res[r]) = 1
    /\ Len(res[r]) = 1 =>
           /\ res[r][1].status \in {200, 400, 500}
           /\ res[r][1].status = 400 =>
                  (route[r] = "filter-coins" /\ fetchCalls[r] = 0)
           /\ res[r][1].status = 200 =>
                  (fetchCalls[r] = 1 /\ fetchResult[r].st = "resolved")

\* C10: every request gets one response and never a second; if its fetch
\* settles it does get one; the status is 200, 400 (filter-coins only) or
\* 500; a 200 only after the request's own fetch succeeded, a 400 only when
\* no fetch was started.
C10_ExactlyOneResponse ==
    /\ [](\A r \in Reqs : OneResponseAtMost(r))
    /\ \A r \in Reqs : (pc[r] # "idle") ~> (Len(res[r]) = 1)

\* One request was answered 400 and another 200.
C10_Witness ==
    \E r, q \in Reqs :
        /\ res[r] = <<Status400>>
        /\ Len(res[q]) = 1 /\ res[q][1].status = 200

=============================================================================
